---- MODULE Spec2Model ----
(***************************************************************************)
(* Model of the ping-tracker engine (tracker/tracker.go, tracker/ping.go,  *)
(* tracker/models.go, tracker/scanner.go).                                 *)
(*                                                                         *)
(* Connection records are heap objects: the live map holds pointers, the   *)
(* scanner inserts the objects ScanConnections allocated, pingAll and its  *)
(* goroutines hold pointers to live objects, Snapshot allocates copies.    *)
(* Unreachable objects are dropped from the heap (garbage collection).     *)
(* Wall-clock times are integers (0 is Go's zero time.Time); float64 rates *)
(* and loss percentages are exact fractions <<num, den>> in lowest terms.  *)
(***************************************************************************)
EXTENDS Integers, Sequences, FiniteSets, TLC

\* ------------------------------------------------------------------ bounds
\* number of scan cycles a behaviour runs (the initial scan included)
MaxCycles == 2
\* scan cycles of a behaviour of SpecRate
RateCycles == 3
\* largest step of the wall clock between two scans
MaxDt == 1
\* longest discovery result of SpecRate
RateLen == 1
\* longest discovery result
MaxLen == 2
\* largest byte counter of a discovered connection
MaxCounter == 2
\* capacity of pingAll's semaphore channel; the source's capacity is 20
\* (make(chan struct{}, 20)), scaled so that the targets can outnumber it
SemCap == 2
\* longest filter typed into the interface's search prompt
MaxFilter == 1
\* longest time one connection attempt of MeasurePing takes, in units of
\* time.Duration
MaxElapsed == 2

\* ---------------------------------------------------------------- state
VARIABLES
    heap,         \* address -> Connection object
    connections,  \* Tracker.connections: key -> address
    mu,           \* Tracker.mu: [writer, readers]
    stopCh,       \* Tracker.stopCh: "open" | "closed"
    pingEnabled,  \* Tracker.pingEnabled
    clock,        \* the wall clock read by time.Now()
    started,      \* Start has returned and its goroutine runs
    ncycles,      \* scan cycles begun so far
    spc,          \* position of the thread that runs scan()
    scanned,      \* scan: the slice returned by ScanConnections (addresses)
    err,          \* scan: ScanConnections returned an error in this cycle
    now,          \* scan: now := time.Now()
    alive,        \* scan: keys seen in this cycle
    idx,          \* scan: position of the range loop over scanned
    targets,      \* pingAll: collected pointers
    tidx,         \* pingAll: position of the dispatch loop
    sem,          \* pingAll: number of tokens in the semaphore channel
    wg,           \* pingAll: WaitGroup counter
    probes,       \* pingAll: running goroutines, target index -> locals
    rpc,          \* position of the consumer thread (Snapshot/Search caller)
    query,        \* Search: the query argument
    snap,         \* addresses of the records the last Snapshot/Search returned
    call,         \* a call of MeasurePing by itself: arguments, outcomes, results
    model,        \* the interface's Model (tui.go)
    hist          \* history: what the current cycle started from

vars == <<heap, connections, mu, stopCh, pingEnabled, clock, started, ncycles,
          spc, scanned, err, now, alive, idx, targets, tidx, sem, wg, probes,
          rpc, query, snap, call, model, hist>>

scanVars == <<scanned, err, now, alive, idx>>
pingVars == <<targets, tidx, sem, wg, probes>>
readerVars == <<rpc, query, snap>>
appVars == <<call, model>>
trackerVars == <<heap, connections, mu, stopCh, pingEnabled, clock, started, ncycles,
                 spc, scanVars, pingVars, readerVars, hist>>

\* ------------------------------------------------------------- helpers
Range(f) == {f[x] : x \in DOMAIN f}

Restrict(f, S) == [x \in S |-> f[x]]

RECURSIVE GCD(_, _)
GCD(a, b) == IF b = 0 THEN a ELSE GCD(b, a % b)

\* the float64 quotient n / d, d > 0, as a fraction in lowest terms
Frac(n, d) == LET g == GCD(n, d) IN <<n \div g, d \div g>>

FracZero == <<0, 1>>

FracGeq(f, k) == f[1] >= k * f[2]

\* heap addresses are pairs: the i-th object that ScanConnections allocates in
\* scan cycle c is at <<c, i>>, the j-th copy of a Snapshot at <<0, j>> (the
\* caller has dropped the previous result by then)
ScanAddr(c, i) == <<c, i>>

CopyAddr(j) == <<0, j>>

\* all orders in which a range loop can visit the set S
RECURSIVE Orders(_)
Orders(S) ==
    IF S = {} THEN {<<>>}
    ELSE UNION {{<<x>> \o o : o \in Orders(S \ {x})} : x \in S}

\* ---------------------------------------------------------- data model
StateEstablished == "ESTABLISHED"
StateListening == "LISTEN"
StateTimeWait == "TIME_WAIT"
Inbound == "IN"
Outbound == "OUT"

\* Connection.Key: the Sprintf of the six identity fields; the format
\* "%d:%s:%s:%d->%s:%d" is injective on them, so the key is their tuple
Key(c) == <<c.PID, c.Protocol, c.LocalAddr, c.LocalPort, c.RemoteAddr, c.RemotePort>>

\* NewConnection with every direction Outbound: `dir := Outbound` alone
NewConnection_AlwaysOutbound(e, t) ==
    [PID |-> e.PID, AppName |-> e.AppName, Protocol |-> e.Protocol,
     Direction |-> Outbound,
     LocalAddr |-> e.LocalAddr, LocalPort |-> e.LocalPort,
     RemoteAddr |-> e.RemoteAddr, RemotePort |-> e.RemotePort,
     State |-> e.State,
     Ping |-> 0, Loss |-> FracZero,
     TxBytes |-> e.TxBytes, RxBytes |-> e.RxBytes,
     TxRate |-> FracZero, RxRate |-> FracZero, ConnAge |-> 0,
     FirstSeen |-> t, LastUpdated |-> t, PingCount |-> 0, PingFailed |-> 0,
     prevTxBytes |-> 0, prevRxBytes |-> 0, prevTime |-> 0]

\* the Connection that ScanConnections builds from one parsed table entry e
\* at time t; every field it does not set has Go's zero value
NewConnection(e, t) ==
    [PID |-> e.PID, AppName |-> e.AppName, Protocol |-> e.Protocol,
     Direction |-> IF e.State = StateListening \/ e.RemoteAddr = "0.0.0.0"
                      \/ e.RemoteAddr = "::"
                   THEN Inbound ELSE Outbound,
     LocalAddr |-> e.LocalAddr, LocalPort |-> e.LocalPort,
     RemoteAddr |-> e.RemoteAddr, RemotePort |-> e.RemotePort,
     State |-> e.State,
     Ping |-> 0, Loss |-> FracZero,
     TxBytes |-> e.TxBytes, RxBytes |-> e.RxBytes,
     TxRate |-> FracZero, RxRate |-> FracZero, ConnAge |-> 0,
     FirstSeen |-> t, LastUpdated |-> t, PingCount |-> 0, PingFailed |-> 0,
     prevTxBytes |-> 0, prevRxBytes |-> 0, prevTime |-> 0]

\* the records of the live map by key, as values
LiveRecords(h, conns) == [k \in DOMAIN conns |-> h[conns[k]]]

\* sync.RWMutex: Lock waits for the writer and every reader, RLock for the writer
CanLock(m) == m.writer = "none" /\ m.readers = {}

CanRLock(m) == m.writer = "none"

\* the objects the program can still reach
Roots(conns, sc, tg, pr, sn) ==
    Range(conns) \cup Range(sc) \cup Range(tg) \cup {pr[i].conn : i \in DOMAIN pr} \cup sn

\* ------------------------------------------------- discovery inputs
Endpoint(pid, proto, la, lp, ra, rp) ==
    [PID |-> pid, Protocol |-> proto, LocalAddr |-> la, LocalPort |-> lp,
     RemoteAddr |-> ra, RemotePort |-> rp]

EpWeb == Endpoint(101, "tcp", "10.0.0.2", 5000, "93.184.216.34", 443)
EpListen == Endpoint(0, "tcp", "0.0.0.0", 80, "0.0.0.0", 0)

\* table entries: an endpoint with a name, a state and two byte counters
Entries(eps, names, states, ctrs) ==
    {[PID |-> ep.PID, Protocol |-> ep.Protocol, LocalAddr |-> ep.LocalAddr,
      LocalPort |-> ep.LocalPort, RemoteAddr |-> ep.RemoteAddr,
      RemotePort |-> ep.RemotePort, AppName |-> n, State |-> s,
      TxBytes |-> tx, RxBytes |-> rx] :
        ep \in eps, n \in names, s \in states, tx \in ctrs, rx \in ctrs}

\* discovery results: lists of at most n entries (a key may repeat)
Lists(E, n) == UNION {[1..l -> E] : l \in 0..n}

\* ------------------------------------------------------- latency prober
pingCount == 3

\* one connection attempt of MeasurePing: DialTimeout succeeded after elapsed
Attempt(ok, elapsed) == [ok |-> ok, elapsed |-> elapsed]

\* MeasurePing's average over every attempt instead of the successful ones
AvgRTT_OverAllAttempts(totalRTT, successful) == totalRTT \div pingCount

\* avgRTT := totalRTT / time.Duration(successful), an integer division
AvgRTT(totalRTT, successful) == totalRTT \div successful

RECURSIVE SumElapsed(_, _)
SumElapsed(out, S) ==
    IF S = {} THEN 0
    ELSE LET i == CHOOSE j \in S : TRUE
         IN out[i].elapsed + SumElapsed(out, S \ {i})

\* MeasurePing(addr, port) when its pingCount sequential attempts end as out;
\* dials is the number of net.DialTimeout calls it has made
MeasurePing(addr, port, out) ==
    IF addr = "0.0.0.0" \/ addr = "::" \/ addr = "127.0.0.1" \/ addr = "::1"
    THEN [rtt |-> 0, loss |-> FracZero, dials |-> 0]
    ELSE LET ok == {i \in 1..pingCount : out[i].ok}
             successful == Cardinality(ok)
             totalRTT == SumElapsed(out, ok)
         IN IF successful = 0
            THEN [rtt |-> 0, loss |-> <<100, 1>>, dials |-> pingCount]
            ELSE [rtt |-> AvgRTT(totalRTT, successful),
                  loss |-> Frac((pingCount - successful) * 100, pingCount),
                  dials |-> pingCount]

\* ------------------------------------------------------------ interface
\* tui.NewModel; rows is len(m.connections), all that the key handlers and the
\* viewport read of the slice; quit: the Program has received tea.Quit
NewModel ==
    [rows |-> 0, filter |-> <<>>, searching |-> FALSE, cursor |-> 0, offset |-> 0,
     width |-> 120, height |-> 30, sortField |-> "SortApp", sortAsc |-> TRUE,
     paused |-> FALSE, showHelp |-> FALSE, quit |-> FALSE]

\* no call of MeasurePing by itself
NoCall ==
    [pc |-> "none", addr |-> "", port |-> 0, out |-> <<>>,
     rtt |-> 0, loss |-> FracZero, dials |-> 0]

\* ------------------------------------------------------------ lifecycle
\* NewTracker
NewTracker(pings) ==
    /\ heap = <<>>
    /\ connections = <<>>
    /\ mu = [writer |-> "none", readers |-> {}]
    /\ stopCh = "open"
    /\ pingEnabled \in pings
    /\ clock = 1
    /\ started = FALSE
    /\ ncycles = 0
    /\ spc = "new"
    /\ scanned = <<>>
    /\ err = FALSE
    /\ now = 0
    /\ alive = {}
    /\ idx = 1
    /\ targets = <<>>
    /\ tidx = 1
    /\ sem = 0
    /\ wg = 0
    /\ probes = <<>>
    /\ rpc = "idle"
    /\ query = <<>>
    /\ snap = {}
    /\ hist = [pre |-> <<>>, res |-> <<>>, repeat |-> FALSE, disc |-> {}, gone |-> <<>>,
               failed |-> {}]

\* the program after NewTracker and NewModel
InitWith(pings) ==
    /\ NewTracker(pings)
    /\ call = NoCall
    /\ model = NewModel

\* Start that runs its first scan in the goroutine: it returns at once
Start_Async ==
    /\ spc = "new"
    /\ spc' = "scan"
    /\ ncycles' = ncycles + 1
    /\ started' = TRUE
    /\ UNCHANGED <<heap, connections, mu, stopCh, pingEnabled, appVars, clock,
                   scanVars, pingVars, readerVars, hist>>

\* Start, up to its call of t.scan()
Start ==
    /\ spc = "new"
    /\ spc' = "scan"
    /\ ncycles' = ncycles + 1
    /\ UNCHANGED <<heap, connections, mu, stopCh, pingEnabled, appVars, clock, started,
                   scanVars, pingVars, readerVars, hist>>

\* LoopTick with `go t.scan()`: a tick starts a scan while the pass of the
\* cycle before is still dispatching or waiting
LoopTick_DuringPass(maxCycles) ==
    /\ spc \in {"loop", "ping_dispatch"}
    /\ ncycles < maxCycles
    /\ spc' = "scan"
    /\ ncycles' = ncycles + 1
    /\ UNCHANGED <<heap, connections, mu, stopCh, pingEnabled, appVars, clock, started,
                   scanVars, pingVars, readerVars, hist>>

\* the goroutine's select takes a tick of the ticker
LoopTick(maxCycles) ==
    /\ spc = "loop"
    /\ ncycles < maxCycles
    /\ spc' = "scan"
    /\ ncycles' = ncycles + 1
    /\ UNCHANGED <<heap, connections, mu, stopCh, pingEnabled, appVars, clock, started,
                   scanVars, pingVars, readerVars, hist>>

\* the goroutine's select takes the closed stop channel
LoopStop ==
    /\ spc = "loop"
    /\ stopCh = "closed"
    /\ spc' = "stopped"
    /\ UNCHANGED <<heap, connections, mu, stopCh, pingEnabled, appVars, clock, started,
                   ncycles, scanVars, pingVars, readerVars, hist>>

\* Stop (main defers it after Start has returned)
Stop ==
    /\ started
    /\ stopCh = "open"
    /\ stopCh' = "closed"
    /\ UNCHANGED <<heap, connections, mu, pingEnabled, appVars, clock, started, ncycles,
                   spc, scanVars, pingVars, readerVars, hist>>

\* ----------------------------------------------------------------- scan
\* ScanAbort without the return: the cycle goes on with a nil slice
ScanAbort_Continue ==
    /\ err' = TRUE
    /\ spc' = "lock"
    /\ scanned' = <<>>
    /\ now' = clock'
    /\ UNCHANGED <<heap, started>>

\* scan: `if err != nil { return }` when ScanConnections failed
ScanAbort ==
    /\ err' = TRUE
    /\ spc' = "loop"
    /\ started' = TRUE
    /\ UNCHANGED <<heap, scanned, now>>

\* scan: scanned, err := ScanConnections(); if err != nil { return };
\* now := time.Now().  The clock has advanced by d since the last cycle.
ScanDiscover(Results, Dts) ==
    /\ spc = "scan"
    /\ \E d \in Dts :
        /\ clock' = clock + d
        /\ \/ /\ ScanAbort
              /\ hist' = [hist EXCEPT !.pre = LiveRecords(heap, connections),
                                      !.repeat = FALSE]
           \/ \E res \in Results :
              LET addrs == [i \in 1..Len(res) |-> ScanAddr(ncycles, i)]
                  objs == [a \in Range(addrs) |-> NewConnection(res[a[2]], clock')]
              IN /\ err' = FALSE
                 /\ heap' = heap @@ objs
                 /\ scanned' = addrs
                 /\ now' = clock'
                 /\ spc' = "lock"
                 /\ hist' = [hist EXCEPT !.pre = LiveRecords(heap, connections),
                                         !.res = res,
                                         !.repeat = (res = hist.res /\ clock' = now)]
                 /\ UNCHANGED started
    /\ UNCHANGED <<connections, mu, stopCh, pingEnabled, appVars, ncycles, alive, idx,
                   pingVars, readerVars>>

\* ScanLock without t.mu.Lock()
ScanLock_Unlocked ==
    /\ spc = "lock"
    /\ alive' = {}
    /\ idx' = 1
    /\ spc' = "reconcile"
    /\ UNCHANGED <<heap, connections, mu, stopCh, pingEnabled, appVars, clock, started,
                   ncycles, scanned, err, now, pingVars, readerVars, hist>>

\* scan: t.mu.Lock(); alive := make(map[string]bool)
ScanLock ==
    /\ spc = "lock"
    /\ CanLock(mu)
    /\ mu' = [mu EXCEPT !.writer = "scan"]
    /\ alive' = {}
    /\ idx' = 1
    /\ spc' = "reconcile"
    /\ UNCHANGED <<heap, connections, stopCh, pingEnabled, appVars, clock, started, ncycles,
                   scanned, err, now, pingVars, readerVars, hist>>

\* the float64 +Inf or NaN of a division by a zero dt
FracInf == <<1, 0>>

\* UpdateExisting that puts the scanned record in the place of the existing one
UpdateExisting_Replace(existing, sc, t) ==
    [sc EXCEPT !.FirstSeen = t, !.LastUpdated = t, !.prevTime = t,
               !.prevTxBytes = sc.TxBytes, !.prevRxBytes = sc.RxBytes]

\* UpdateExisting without the two `>=` guards, on the signed difference
UpdateExisting_SignedDelta(existing, sc, t) ==
    LET dt == t - existing.prevTime
        rated == existing.prevTime # 0 /\ dt > 0
        e1 == [existing EXCEPT
                 !.State = sc.State,
                 !.LastUpdated = t,
                 !.ConnAge = t - existing.FirstSeen,
                 !.TxRate = IF rated
                            THEN Frac(sc.TxBytes - existing.prevTxBytes, dt)
                            ELSE @,
                 !.RxRate = IF rated
                            THEN Frac(sc.RxBytes - existing.prevRxBytes, dt)
                            ELSE @]
    IN [e1 EXCEPT !.prevTxBytes = existing.TxBytes,
                  !.prevRxBytes = existing.RxBytes,
                  !.prevTime = t,
                  !.TxBytes = sc.TxBytes,
                  !.RxBytes = sc.RxBytes]

\* UpdateExisting without the `dt > 0` guard
UpdateExisting_NoDtGuard(existing, sc, t) ==
    LET dt == t - existing.prevTime
        rated == existing.prevTime # 0
        e1 == [existing EXCEPT
                 !.State = sc.State,
                 !.LastUpdated = t,
                 !.ConnAge = t - existing.FirstSeen,
                 !.TxRate = IF rated /\ sc.TxBytes >= existing.prevTxBytes
                            THEN IF dt = 0 THEN FracInf
                                 ELSE Frac(sc.TxBytes - existing.prevTxBytes, dt)
                            ELSE @,
                 !.RxRate = IF rated /\ sc.RxBytes >= existing.prevRxBytes
                            THEN IF dt = 0 THEN FracInf
                                 ELSE Frac(sc.RxBytes - existing.prevRxBytes, dt)
                            ELSE @]
    IN [e1 EXCEPT !.prevTxBytes = existing.TxBytes,
                  !.prevRxBytes = existing.RxBytes,
                  !.prevTime = t,
                  !.TxBytes = sc.TxBytes,
                  !.RxBytes = sc.RxBytes]

\* the update of an existing record from the scanned record sc at time t
UpdateExisting(existing, sc, t) ==
    LET dt == t - existing.prevTime
        rated == existing.prevTime # 0 /\ dt > 0
        e1 == [existing EXCEPT
                 !.State = sc.State,
                 !.LastUpdated = t,
                 !.ConnAge = t - existing.FirstSeen,
                 !.TxRate = IF rated /\ sc.TxBytes >= existing.prevTxBytes
                            THEN Frac(sc.TxBytes - existing.prevTxBytes, dt)
                            ELSE @,
                 !.RxRate = IF rated /\ sc.RxBytes >= existing.prevRxBytes
                            THEN Frac(sc.RxBytes - existing.prevRxBytes, dt)
                            ELSE @]
    IN [e1 EXCEPT !.prevTxBytes = existing.TxBytes,
                  !.prevRxBytes = existing.RxBytes,
                  !.prevTime = t,
                  !.TxBytes = sc.TxBytes,
                  !.RxBytes = sc.RxBytes]

\* InsertNew without the initialisation of the previous counters
InsertNew_ZeroBaseline(sc, t) ==
    [sc EXCEPT !.FirstSeen = t, !.LastUpdated = t, !.prevTime = t]

\* the scanned record sc as scan inserts it at time t
InsertNew(sc, t) ==
    [sc EXCEPT !.FirstSeen = t, !.LastUpdated = t, !.prevTime = t,
               !.prevTxBytes = sc.TxBytes, !.prevRxBytes = sc.RxBytes]

\* scan: one iteration of `for _, sc := range scanned`
ScanReconcile ==
    /\ spc = "reconcile"
    /\ idx <= Len(scanned)
    /\ LET a == scanned[idx]
           sc == heap[a]
           key == Key(sc)
       IN /\ alive' = alive \cup {key}
          /\ IF key \in DOMAIN connections
             THEN /\ heap' = [heap EXCEPT ![connections[key]] =
                                 UpdateExisting(heap[connections[key]], sc, now)]
                  /\ UNCHANGED connections
             ELSE /\ heap' = [heap EXCEPT ![a] = InsertNew(sc, now)]
                  /\ connections' = connections @@ (key :> a)
    /\ idx' = idx + 1
    /\ UNCHANGED <<mu, stopCh, pingEnabled, appVars, clock, started, ncycles, spc, scanned,
                   err, now, pingVars, readerVars, hist>>

\* a probe pass after every scan, whatever the flag
PingAfterScan_Always == TRUE

\* scan: `if t.pingEnabled` before t.pingAll()
PingAfterScan == pingEnabled

\* RemoveStale that is skipped when nothing was discovered
RemoveStale_UnlessEmpty(conns, al) ==
    IF al = {} THEN conns ELSE Restrict(conns, DOMAIN conns \cap al)

\* RemoveStale without the delete
RemoveStale_KeepAll(conns, al) == conns

\* the live map after scan's `Remove stale connections` loop
RemoveStale(conns, al) == Restrict(conns, DOMAIN conns \cap al)

\* scan: the stale loop, t.mu.Unlock(), and `if t.pingEnabled`
ScanEvict ==
    /\ spc = "reconcile"
    /\ idx > Len(scanned)
    /\ connections' = RemoveStale(connections, alive)
    /\ mu' = [mu EXCEPT !.writer = "none"]
    /\ scanned' = <<>>
    /\ heap' = Restrict(heap, Roots(connections', <<>>, targets, probes, snap))
    /\ hist' = [hist EXCEPT !.disc = {Key(hist.res[i]) : i \in 1..Len(hist.res)},
                            !.gone = LiveRecords(heap, Restrict(connections,
                                         DOMAIN connections \ alive)) @@ @]
    /\ IF PingAfterScan
       THEN spc' = "ping_rlock" /\ UNCHANGED started
       ELSE spc' = "loop" /\ started' = TRUE
    /\ UNCHANGED <<stopCh, pingEnabled, appVars, clock, ncycles, err, now, alive, idx,
                   pingVars, readerVars>>

\* -------------------------------------------------------------- pingAll
\* pingAll: t.mu.RLock()
PingRLock ==
    /\ spc = "ping_rlock"
    /\ CanRLock(mu)
    /\ mu' = [mu EXCEPT !.readers = @ \cup {"pingAll"}]
    /\ spc' = "ping_collect"
    /\ UNCHANGED <<heap, connections, stopCh, pingEnabled, appVars, clock, started, ncycles,
                   scanVars, pingVars, readerVars, hist>>

\* Eligible without the two comparisons of the remote address
Eligible_AnyRemote(h, conns) ==
    {conns[k] : k \in {j \in DOMAIN conns : h[conns[j]].State = StateEstablished}}

\* the records pingAll collects
Eligible(h, conns) ==
    {conns[k] : k \in {j \in DOMAIN conns :
        /\ h[conns[j]].State = StateEstablished
        /\ h[conns[j]].RemoteAddr # "0.0.0.0"
        /\ h[conns[j]].RemoteAddr # "::"}}

\* pingAll: the range loop over the map (in any order), t.mu.RUnlock(),
\* sem := make(chan struct{}, 20), var wg sync.WaitGroup
PingCollect ==
    /\ spc = "ping_collect"
    /\ \E o \in Orders(Eligible(heap, connections)) : targets' = o
    /\ mu' = [mu EXCEPT !.readers = @ \ {"pingAll"}]
    /\ tidx' = 1
    /\ sem' = 0
    /\ wg' = 0
    /\ probes' = <<>>
    /\ spc' = "ping_dispatch"
    /\ UNCHANGED <<heap, connections, stopCh, pingEnabled, appVars, clock, started, ncycles,
                   scanVars, readerVars, hist>>

\* SemFree for an unbounded channel
SemFree_Unbounded(n) == TRUE

\* the semaphore channel accepts a send
SemFree(n) == n < SemCap

\* pingAll: wg.Add(1); sem <- struct{}{}; go func(conn){...}(c)
PingDispatch ==
    /\ spc = "ping_dispatch"
    /\ tidx <= Len(targets)
    /\ SemFree(sem)
    /\ wg' = wg + 1
    /\ sem' = sem + 1
    /\ probes' = probes @@ (tidx :> [pc |-> "measure", conn |-> targets[tidx],
                                     rtt |-> 0, loss |-> FracZero])
    /\ tidx' = tidx + 1
    /\ UNCHANGED <<heap, connections, mu, stopCh, pingEnabled, appVars, clock, started,
                   ncycles, spc, scanVars, targets, readerVars, hist>>

\* WaitDone without the wait
WaitDone_NoWait(n) == TRUE

\* wg.Wait() returns
WaitDone(n) == n = 0

\* pingAll: wg.Wait() and the return of pingAll and of scan
PingWait ==
    /\ spc = "ping_dispatch"
    /\ tidx > Len(targets)
    /\ WaitDone(wg)
    /\ targets' = <<>>
    /\ heap' = Restrict(heap, Roots(connections, scanned, <<>>, probes, snap))
    /\ spc' = "loop"
    /\ started' = TRUE
    /\ UNCHANGED <<connections, mu, stopCh, pingEnabled, appVars, clock, ncycles, scanVars,
                   tidx, sem, wg, probes, readerVars, hist>>

\* ProbeMeasure under the write lock: t.mu.Lock() before MeasurePing
ProbeMeasure_Locked(i, Outcomes) ==
    /\ i \in DOMAIN probes
    /\ probes[i].pc = "measure"
    /\ CanLock(mu)
    /\ mu' = [mu EXCEPT !.writer = "probe"]
    /\ \E out \in Outcomes :
        LET c == heap[probes[i].conn]
            r == MeasurePing(c.RemoteAddr, c.RemotePort, out)
        IN probes' = [probes EXCEPT ![i] = [@ EXCEPT !.pc = "write", !.rtt = r.rtt,
                                                     !.loss = r.loss]]
    /\ UNCHANGED <<heap, connections, stopCh, pingEnabled, appVars, clock, started,
                   ncycles, spc, scanVars, targets, tidx, sem, wg, readerVars, hist>>

\* goroutine i: rtt, loss := MeasurePing(conn.RemoteAddr, conn.RemotePort)
ProbeMeasure(i, Outcomes) ==
    /\ i \in DOMAIN probes
    /\ probes[i].pc = "measure"
    /\ \E out \in Outcomes :
        LET c == heap[probes[i].conn]
            r == MeasurePing(c.RemoteAddr, c.RemotePort, out)
        IN probes' = [probes EXCEPT ![i] = [@ EXCEPT !.pc = "lock", !.rtt = r.rtt,
                                                     !.loss = r.loss]]
    /\ UNCHANGED <<heap, connections, mu, stopCh, pingEnabled, appVars, clock, started,
                   ncycles, spc, scanVars, targets, tidx, sem, wg, readerVars, hist>>

\* ProbeLock without t.mu.Lock(): the goroutine goes on to write at once
ProbeLock_Unlocked(i) ==
    /\ i \in DOMAIN probes
    /\ probes[i].pc = "lock"
    /\ probes' = [probes EXCEPT ![i].pc = "write"]
    /\ UNCHANGED <<heap, connections, mu, stopCh, pingEnabled, appVars, clock, started,
                   ncycles, spc, scanVars, targets, tidx, sem, wg, readerVars, hist>>

\* goroutine i: t.mu.Lock()
ProbeLock(i) ==
    /\ i \in DOMAIN probes
    /\ probes[i].pc = "lock"
    /\ CanLock(mu)
    /\ mu' = [mu EXCEPT !.writer = "probe"]
    /\ probes' = [probes EXCEPT ![i].pc = "write"]
    /\ UNCHANGED <<heap, connections, stopCh, pingEnabled, appVars, clock, started, ncycles,
                   spc, scanVars, targets, tidx, sem, wg, readerVars, hist>>

\* WriteBack that keeps the last RTT when every attempt failed
WriteBack_KeepsRttOnFailure(conn, rtt, loss) ==
    [conn EXCEPT !.Ping = IF FracGeq(loss, 100) THEN @ ELSE rtt,
                 !.PingCount = @ + 1,
                 !.Loss = loss,
                 !.PingFailed = IF FracGeq(loss, 100) THEN @ + 1 ELSE @]

\* WriteBack that counts a failure whenever an attempt was lost
WriteBack_FailureOnAnyLoss(conn, rtt, loss) ==
    [conn EXCEPT !.Ping = rtt,
                 !.PingCount = @ + 1,
                 !.Loss = loss,
                 !.PingFailed = IF loss[1] > 0 THEN @ + 1 ELSE @]

\* WriteBack of a goroutine that drops its result once Stop was called
WriteBack_UnlessStopped(conn, rtt, loss) ==
    IF stopCh = "closed" THEN conn
    ELSE [conn EXCEPT !.Ping = rtt,
                      !.PingCount = @ + 1,
                      !.Loss = loss,
                      !.PingFailed = IF FracGeq(loss, 100) THEN @ + 1 ELSE @]

\* the record conn after a goroutine's write-back of rtt and loss
WriteBack(conn, rtt, loss) ==
    [conn EXCEPT !.Ping = rtt,
                 !.PingCount = @ + 1,
                 !.Loss = loss,
                 !.PingFailed = IF FracGeq(loss, 100) THEN @ + 1 ELSE @]

\* goroutine i: the write-back and t.mu.Unlock()
ProbeWrite(i) ==
    /\ i \in DOMAIN probes
    /\ probes[i].pc = "write"
    /\ heap' = [heap EXCEPT ![probes[i].conn] =
                    WriteBack(@, probes[i].rtt, probes[i].loss)]
    /\ mu' = [mu EXCEPT !.writer = "none"]
    /\ probes' = [probes EXCEPT ![i].pc = "exit"]
    /\ UNCHANGED <<connections, stopCh, pingEnabled, appVars, clock, started, ncycles, spc,
                   scanVars, targets, tidx, sem, wg, readerVars, hist>>

\* ProbeExit without `defer func() { <-sem }()`: the slot is never given back
ProbeExit_NoRelease(i) ==
    /\ i \in DOMAIN probes
    /\ probes[i].pc = "exit"
    /\ wg' = wg - 1
    /\ probes' = Restrict(probes, DOMAIN probes \ {i})
    /\ UNCHANGED <<heap, connections, mu, stopCh, pingEnabled, appVars, clock, started,
                   ncycles, spc, scanVars, targets, tidx, sem, readerVars, hist>>

\* goroutine i: the deferred <-sem and wg.Done()
ProbeExit(i) ==
    /\ i \in DOMAIN probes
    /\ probes[i].pc = "exit"
    /\ sem' = sem - 1
    /\ wg' = wg - 1
    /\ probes' = Restrict(probes, DOMAIN probes \ {i})
    /\ UNCHANGED <<heap, connections, mu, stopCh, pingEnabled, appVars, clock, started,
                   ncycles, spc, scanVars, targets, tidx, readerVars, hist>>

\* ---------------------------------------------------- Snapshot, Search
\* strings are sequences of characters
Uppers == <<"A", "B", "C", "D", "E", "F", "G", "H", "I", "J", "K", "L", "M",
            "N", "O", "P", "Q", "R", "S", "T", "U", "V", "W", "X", "Y", "Z">>
Lowers == <<"a", "b", "c", "d", "e", "f", "g", "h", "i", "j", "k", "l", "m",
            "n", "o", "p", "q", "r", "s", "t", "u", "v", "w", "x", "y", "z">>

\* strings.ToLower
ToLower(str) ==
    [i \in 1..Len(str) |->
        IF \E j \in 1..Len(Uppers) : Uppers[j] = str[i]
        THEN Lowers[CHOOSE j \in 1..Len(Uppers) : Uppers[j] = str[i]]
        ELSE str[i]]

\* strings.Contains
Contains(str, substr) ==
    \E i \in 0..(Len(str) - Len(substr)) : SubSeq(str, i + 1, i + Len(substr)) = substr

\* Snapshot: t.mu.RLock()
SnapshotRLock ==
    /\ started
    /\ rpc = "idle"
    /\ CanRLock(mu)
    /\ mu' = [mu EXCEPT !.readers = @ \cup {"reader"}]
    /\ rpc' = "snapshot"
    /\ UNCHANGED <<heap, connections, stopCh, pingEnabled, appVars, clock, started, ncycles,
                   spc, scanVars, pingVars, query, snap, hist>>

\* Search(q): `if query == "" { return t.Snapshot() }`, else t.mu.RLock()
SearchRLock(q) ==
    /\ started
    /\ rpc = "idle"
    /\ CanRLock(mu)
    /\ mu' = [mu EXCEPT !.readers = @ \cup {"reader"}]
    /\ IF q = <<>>
       THEN rpc' = "snapshot" /\ UNCHANGED query
       ELSE rpc' = "search" /\ query' = q
    /\ UNCHANGED <<heap, connections, stopCh, pingEnabled, appVars, clock, started, ncycles,
                   spc, scanVars, pingVars, snap, hist>>

\* CopyOf without the copy: result = append(result, c)
CopyOf_Alias(a, fresh) == a

\* the pointer appended to the result for the live record at address a, when
\* fresh is unused memory: cp := *c; result = append(result, &cp)
CopyOf(a, fresh) == fresh

\* the copy loop over the selected live records, the deferred RUnlock and the
\* return; the caller drops the previous result
ReturnCopies(sel) ==
    /\ LET order == CHOOSE o \in Orders(sel) : TRUE
           result == {CopyOf(order[j], CopyAddr(j)) : j \in 1..Len(order)}
           copies == [a \in result \ Range(connections) |-> heap[order[a[2]]]]
       IN /\ snap' = result
          /\ heap' = Restrict(copies @@ heap,
                              Roots(connections, scanned, targets, probes, result))
    /\ mu' = [mu EXCEPT !.readers = @ \ {"reader"}]
    /\ rpc' = "idle"

\* Snapshot: the loop over t.connections and the return
SnapshotCopy ==
    /\ rpc = "snapshot"
    /\ ReturnCopies(Range(connections))
    /\ UNCHANGED <<connections, stopCh, pingEnabled, appVars, clock, started, ncycles, spc,
                   scanVars, pingVars, query, hist>>

\* Matching without the two strings.ToLower
Matching_CaseSensitive(h, conns, q) ==
    {a \in Range(conns) : Contains(h[a].AppName, q)}

\* the live records that Search(q) selects, q not empty
Matching(h, conns, q) ==
    {a \in Range(conns) : Contains(ToLower(h[a].AppName), ToLower(q))}

\* Search: the loop over t.connections and the return
SearchCopy ==
    /\ rpc = "search"
    /\ ReturnCopies(Matching(heap, connections, query))
    /\ query' = <<>>
    /\ UNCHANGED <<connections, stopCh, pingEnabled, appVars, clock, started, ncycles, spc,
                   scanVars, pingVars, hist>>

Edited == <<"e", "d", "i", "t", "e", "d">>

\* the consumer writes a field of a record that Snapshot or Search returned
ConsumerMutate ==
    /\ rpc = "idle"
    /\ \E a \in snap :
        /\ heap[a].AppName # Edited
        /\ heap' = [heap EXCEPT ![a].AppName = Edited]
    /\ UNCHANGED <<connections, mu, stopCh, pingEnabled, appVars, clock, started, ncycles,
                   spc, scanVars, pingVars, readerVars, hist>>

\* ------------------------------------------------------------ interface
maxInt(a, b) == IF a > b THEN a ELSE b

\* Model.SetFilter
SetFilter(m, f) == [m EXCEPT !.filter = f]

\* Model.visibleRows
visibleRows(m) == maxInt(1, m.height - 6)

\* Model.refresh: Search(m.filter) or Snapshot(), then sortConnections, which
\* reorders the slice
refresh(m) ==
    [m EXCEPT !.rows = IF m.filter # <<>>
                       THEN Cardinality(Matching(heap, connections, m.filter))
                       ELSE Cardinality(Range(connections))]

\* Model.toggleSort
toggleSort(m, field) ==
    IF m.sortField = field
    THEN [m EXCEPT !.sortAsc = ~@]
    ELSE [m EXCEPT !.sortField = field, !.sortAsc = TRUE]

\* len(msg.String()) == 1, for the keys that have a name
SingleChar(key) ==
    key \notin {"enter", "esc", "backspace", "up", "down", "home", "end", "ctrl+c"}

\* Model.handleSearchKey
handleSearchKey(m, key) ==
    CASE key = "enter" ->
            refresh([m EXCEPT !.searching = FALSE, !.cursor = 0, !.offset = 0])
      [] key = "esc" -> [m EXCEPT !.searching = FALSE]
      [] key = "backspace" ->
            IF Len(m.filter) > 0
            THEN [m EXCEPT !.filter = SubSeq(@, 1, Len(@) - 1)]
            ELSE m
      [] OTHER ->
            IF SingleChar(key) THEN [m EXCEPT !.filter = Append(@, key)] ELSE m

\* Model.handleKey
handleKey(m, key) ==
    IF m.searching THEN handleSearchKey(m, key)
    ELSE CASE key \in {"q", "ctrl+c"} -> [m EXCEPT !.quit = TRUE]
           [] key = "/" -> [m EXCEPT !.searching = TRUE]
           [] key \in {"up", "k"} ->
                IF m.cursor > 0
                THEN [m EXCEPT !.cursor = @ - 1,
                               !.offset = IF m.cursor - 1 < @ THEN m.cursor - 1 ELSE @]
                ELSE m
           [] key \in {"down", "j"} ->
                IF m.cursor < m.rows - 1
                THEN [m EXCEPT !.cursor = @ + 1,
                               !.offset = IF m.cursor + 1 >= @ + visibleRows(m)
                                          THEN m.cursor + 1 - visibleRows(m) + 1
                                          ELSE @]
                ELSE m
           [] key \in {"home", "g"} -> [m EXCEPT !.cursor = 0, !.offset = 0]
           [] key \in {"end", "G"} ->
                LET cursor == maxInt(0, m.rows - 1)
                IN [m EXCEPT !.cursor = cursor,
                             !.offset = IF cursor >= visibleRows(m)
                                        THEN cursor - visibleRows(m) + 1
                                        ELSE @]
           [] key = "1" -> toggleSort(m, "SortApp")
           [] key = "2" -> toggleSort(m, "SortPing")
           [] key = "3" -> toggleSort(m, "SortLoss")
           [] key = "4" -> toggleSort(m, "SortTxRate")
           [] key = "5" -> toggleSort(m, "SortRxRate")
           [] key = "6" -> toggleSort(m, "SortState")
           [] key = "p" -> [m EXCEPT !.paused = ~@]
           [] key = "r" -> refresh(m)
           [] key = "c" -> refresh([m EXCEPT !.filter = <<>>, !.cursor = 0, !.offset = 0])
           [] key = "?" -> [m EXCEPT !.showHelp = ~@]
           [] OTHER -> m

\* the handler of key calls refresh, which takes the tracker's read lock
CallsRefresh(m, key) ==
    IF m.searching THEN key = "enter" ELSE key \in {"r", "c"}

\* Update with a tea.KeyMsg
KeyMsg(key) ==
    /\ started
    /\ ~model.quit
    /\ CallsRefresh(model, key) => CanRLock(mu)
    /\ (model.searching /\ SingleChar(key)) => Len(model.filter) < MaxFilter
    /\ model' = handleKey(model, key)
    /\ UNCHANGED <<trackerVars, call>>

\* Update with a tickMsg
TickMsg ==
    /\ started
    /\ ~model.quit
    /\ ~model.paused => CanRLock(mu)
    /\ model' = IF ~model.paused THEN refresh(model) ELSE model
    /\ UNCHANGED <<trackerVars, call>>

\* Update with a tea.WindowSizeMsg
WindowSizeMsg(w, h) ==
    /\ started
    /\ ~model.quit
    /\ model' = [model EXCEPT !.width = w, !.height = h]
    /\ UNCHANGED <<trackerVars, call>>

\* View shows the help screen instead of the table
HelpShown(m) == m.showHelp

\* ------------------------------------------------------- specifications
Names == {<<"C", "h", "r", "o", "m", "e">>}
SpecQueries == {<<>>, <<"C", "H", "R">>, <<"f", "o", "x">>}
SpecEntries == Entries({EpWeb}, Names, {StateEstablished, StateTimeWait}, {0})
                   \cup Entries({EpListen}, Names, {StateListening}, {0})
SpecResults == Lists(SpecEntries, MaxLen)
SpecOutcomes == {[i \in 1..pingCount |-> Attempt(FALSE, 0)],
                 [i \in 1..pingCount |-> Attempt(TRUE, 1)]}

Init == InitWith(BOOLEAN)

Next ==
    \/ Start
    \/ LoopTick(MaxCycles)
    \/ ScanDiscover(SpecResults, {1})
    \/ ScanLock
    \/ ScanReconcile
    \/ ScanEvict
    \/ PingRLock
    \/ PingCollect
    \/ PingDispatch
    \/ PingWait
    \/ \E i \in 1..MaxLen : ProbeMeasure(i, SpecOutcomes)
    \/ \E i \in 1..MaxLen : ProbeLock(i)
    \/ \E i \in 1..MaxLen : ProbeWrite(i)
    \/ \E i \in 1..MaxLen : ProbeExit(i)
    \/ SnapshotRLock
    \/ SnapshotCopy
    \/ \E q \in SpecQueries : SearchRLock(q)
    \/ SearchCopy
    \/ ConsumerMutate

Spec == Init /\ [][Next]_vars

\* the scanner alone (-no-ping, no consumer), with byte counters and a clock
\* that may stand still between two scans
RateEntries ==
    {e \in Entries({EpWeb}, Names, {StateEstablished}, 0..MaxCounter) :
        e.TxBytes = 0 \/ e.RxBytes = 0}
RateResults == Lists(RateEntries, RateLen)

InitRate == InitWith({FALSE})

NextRate ==
    \/ Start
    \/ LoopTick(RateCycles)
    \/ ScanDiscover(RateResults, 0..MaxDt)
    \/ ScanLock
    \/ ScanReconcile
    \/ ScanEvict

SpecRate == InitRate /\ [][NextRate]_vars

\* Start's synchronous scan with a probe pass over more targets than the
\* semaphore has room for
EpPeer(i) == Endpoint(200 + i, "tcp", "10.0.0.2", 6000 + i, "198.51.100.7", 443)
NumPeers == SemCap + 1
ProbeResults ==
    {[i \in 1..NumPeers |->
        CHOOSE e \in Entries({EpPeer(i)}, Names, {StateEstablished}, {0}) : TRUE]}

InitProbe == InitWith({TRUE})

NextProbe ==
    \/ Start
    \/ ScanDiscover(ProbeResults, {1})
    \/ ScanLock
    \/ ScanReconcile
    \/ ScanEvict
    \/ PingRLock
    \/ PingCollect
    \/ PingDispatch
    \/ PingWait
    \/ \E i \in 1..NumPeers : ProbeMeasure(i, SpecOutcomes)
    \/ \E i \in 1..NumPeers : ProbeLock(i)
    \/ \E i \in 1..NumPeers : ProbeWrite(i)
    \/ \E i \in 1..NumPeers : ProbeExit(i)

SpecProbe == InitProbe /\ [][NextProbe]_vars

\* ------------------------------------------------------------- claims
PingPcs == {"ping_rlock", "ping_collect", "ping_dispatch"}

ResKeys(res) == {Key(res[i]) : i \in 1..Len(res)}

\* the step is an iteration of scan's loop that updates an existing record
UpdateStep ==
    /\ spc = "reconcile"
    /\ idx' = idx + 1
    /\ idx <= Len(scanned)
    /\ Key(heap[scanned[idx]]) \in DOMAIN connections

\* the step is an iteration of scan's loop that inserts a new record
InsertStep ==
    /\ spc = "reconcile"
    /\ idx' = idx + 1
    /\ idx <= Len(scanned)
    /\ Key(heap[scanned[idx]]) \notin DOMAIN connections

\* the step ends a successful reconciliation
EvictStep == spc = "reconcile" /\ spc' # "reconcile"

\* the step is the return of Snapshot or Search
ReturnStep == rpc \in {"snapshot", "search"} /\ rpc' = "idle"

\* the step is a write of the consumer to a record it was given
ConsumerStep == heap' # heap /\ UNCHANGED <<spc, idx, probes, rpc, mu, connections>>

\* C1: after a scan cycle whose discovery succeeded, the keys of the live map
\* are the keys of that cycle's discovery result, and no record that was in the
\* map before the cycle without being discovered in it is left.
C1_ReconcileMatchesDiscovery ==
    (~err /\ spc \in PingPcs \cup {"loop", "stopped"}) =>
        /\ DOMAIN connections = ResKeys(hist.res)
        /\ \A k \in DOMAIN hist.pre \ ResKeys(hist.res) : k \notin DOMAIN connections

C1_Witness ==
    /\ ~err
    /\ spc = "loop"
    /\ DOMAIN hist.pre \ DOMAIN connections # {}
    /\ DOMAIN connections \ DOMAIN hist.pre # {}

\* C2: when a scan re-observes a key after dt > 0 and the new counter is not
\* below the counter observed at the previous scan, the rate becomes
\* (new counter - counter of the previous scan) / dt, for send and for receive.
C2_RateIsDeltaOfSuccessiveSamples ==
    [][UpdateStep =>
        LET sc == heap[scanned[idx]]
            a == connections[Key(sc)]
            dt == now - heap[a].LastUpdated
        IN dt > 0 =>
            /\ sc.TxBytes >= heap[a].TxBytes =>
                 heap'[a].TxRate = Frac(sc.TxBytes - heap[a].TxBytes, dt)
            /\ sc.RxBytes >= heap[a].RxBytes =>
                 heap'[a].RxRate = Frac(sc.RxBytes - heap[a].RxBytes, dt)]_vars

\* C3: when a scan re-observes a key and the new counter is lower than the
\* counter of the record's preceding sample, the rate after the reconciliation
\* is the rate before it, for send and for receive independently.
C3_DecreaseKeepsRate ==
    [][UpdateStep =>
        LET sc == heap[scanned[idx]]
            a == connections[Key(sc)]
        IN /\ sc.TxBytes < heap[a].TxBytes => heap'[a].TxRate = heap[a].TxRate
           /\ sc.RxBytes < heap[a].RxBytes => heap'[a].RxRate = heap[a].RxRate]_vars

\* the first entry of the discovery result res that has key k
FirstEntry(res, k) ==
    res[CHOOSE i \in 1..Len(res) :
            Key(res[i]) = k /\ \A j \in 1..(i - 1) : Key(res[j]) # k]

\* C4: a record inserted by the scan that first observes its key has send and
\* receive rate 0 right after the insertion and at the end of that scan,
\* whatever its byte counters, and its previous counters are its initial ones.
C4_FirstObservationZeroRate ==
    [][/\ InsertStep =>
            LET a == scanned[idx]
            IN /\ heap'[a].TxRate = FracZero
               /\ heap'[a].RxRate = FracZero
               /\ heap'[a].TxBytes = heap[a].TxBytes
               /\ heap'[a].RxBytes = heap[a].RxBytes
               /\ heap'[a].prevTxBytes = heap[a].TxBytes
               /\ heap'[a].prevRxBytes = heap[a].RxBytes
       /\ EvictStep =>
            \A k \in DOMAIN connections' \ DOMAIN hist.pre :
                LET r == heap'[connections'[k]]
                IN /\ r.TxRate = FracZero
                   /\ r.RxRate = FracZero
                   /\ r.prevTxBytes = FirstEntry(hist.res, k).TxBytes
                   /\ r.prevRxBytes = FirstEntry(hist.res, k).RxBytes]_vars

C4_Witness ==
    /\ spc = "loop"
    /\ ~err
    /\ \E k \in DOMAIN connections \ DOMAIN hist.pre :
        LET r == heap[connections[k]]
        IN r.TxBytes > 0 /\ r.TxRate = FracZero /\ r.prevTxBytes = r.TxBytes

\* C5: a reconciliation with the discovery result of the previous one and no
\* elapsed time leaves every record's send and receive rate and first-seen
\* time as they were after the previous reconciliation.
C5_RepeatedReconcileKeepsRates ==
    (hist.repeat /\ spc = "loop") =>
        /\ DOMAIN connections = DOMAIN hist.pre
        /\ \A k \in DOMAIN connections :
            LET r == heap[connections[k]]
            IN /\ r.TxRate = hist.pre[k].TxRate
               /\ r.RxRate = hist.pre[k].RxRate
               /\ r.FirstSeen = hist.pre[k].FirstSeen

C5_Witness ==
    /\ hist.repeat
    /\ spc = "loop"
    /\ \E k \in DOMAIN connections :
        /\ heap[connections[k]].TxRate # FracZero
        /\ heap[connections[k]].FirstSeen < now

\* C6: a cycle whose discovery fails mutates nothing: the live map and every
\* field of every record stay as they were, the cycle ends without taking the
\* lock and without a probe pass, and Snapshot returns the records as they were.
C6_FailedDiscoveryMutatesNothing ==
    [][err' =>
        /\ LiveRecords(heap', connections') = hist'.pre
        /\ spc' \in {"loop", "stopped", "scan"}
        /\ mu'.writer = "none"
        /\ probes' = <<>>
        /\ targets' = <<>>
        /\ (rpc = "snapshot" /\ rpc' = "idle") =>
              {heap'[a] : a \in snap'} = Range(hist'.pre)]_vars

C6_Witness ==
    /\ err
    /\ spc = "loop"
    /\ rpc = "idle"
    /\ hist.pre # <<>>
    /\ {heap[a] : a \in snap} = Range(hist.pre)
    /\ \E k \in DOMAIN hist.pre : hist.pre[k].PingCount > 0

\* C7: the records Snapshot and Search return are copies: a write of the
\* consumer to a returned record changes no live record, every Snapshot and
\* Search returns the values of (selected) live records, and no step of the
\* scanner or of a probe changes a record already returned.
C7_ReturnedRecordsAreCopies ==
    [][/\ ConsumerStep => LiveRecords(heap', connections') = LiveRecords(heap, connections)
       /\ ReturnStep =>
            /\ {heap'[a] : a \in snap'} \subseteq Range(LiveRecords(heap, connections))
            /\ rpc = "snapshot" =>
                 {heap'[a] : a \in snap'} = Range(LiveRecords(heap, connections))
            /\ LiveRecords(heap', connections') = LiveRecords(heap, connections)
       /\ (~ConsumerStep /\ ~ReturnStep) =>
            /\ snap' = snap
            /\ \A a \in snap : heap'[a] = heap[a]]_vars

C7_Witness ==
    \E a \in snap :
        /\ heap[a].AppName = Edited
        /\ Key(heap[a]) \in DOMAIN connections
        /\ heap[connections[Key(heap[a])]].AppName # Edited
        /\ heap[connections[Key(heap[a])]].PingCount > heap[a].PingCount
        /\ heap[connections[Key(heap[a])]].State # heap[a].State

\* C8: Snapshot and Search never see a partly reconciled map: the keys they
\* return are the keys of the last discovery result whose reconciliation has
\* completed (for Search, those of them whose record matches the query).
C8_ReadersSeeCompletedReconcile ==
    [][ReturnStep =>
        LET keys == {Key(heap'[a]) : a \in snap'}
        IN /\ Cardinality(snap') = Cardinality(keys)
           /\ IF rpc = "snapshot"
              THEN keys = hist.disc
              ELSE keys = {k \in hist.disc \cap DOMAIN connections :
                             Contains(ToLower(heap[connections[k]].AppName),
                                      ToLower(query))}]_vars

C8_Witness ==
    /\ rpc = "snapshot"
    /\ spc = "lock"
    /\ hist.disc # {}
    /\ ResKeys(hist.res) \ hist.disc # {}
    /\ hist.disc \ ResKeys(hist.res) # {}

\* C9: at every instant of a probe pass at most SemCap probes are in flight,
\* however many targets the pass has.
C9_BoundedProbesInFlight == Cardinality(DOMAIN probes) <= SemCap

C9_Witness ==
    /\ Cardinality(DOMAIN probes) = SemCap
    /\ \A i \in DOMAIN probes : probes[i].pc = "measure"
    /\ spc = "ping_dispatch"
    /\ tidx <= Len(targets)
    /\ Len(targets) > SemCap

\* the PingCount a live record had when the current cycle began
PingCountBefore(k) == IF k \in DOMAIN hist.pre THEN hist.pre[k].PingCount ELSE 0

\* C10: a probe pass returns only after every probe it dispatched has finished
\* and written back, so outside a probe pass no probe is in flight.
C10_PassWaitsForProbes ==
    [][/\ spc' \notin PingPcs => (probes' = <<>> /\ sem' = 0 /\ wg' = 0)
       /\ (spc \in PingPcs /\ spc' \notin PingPcs) =>
            \A i \in 1..Len(targets) :
                LET r == heap[targets[i]]
                IN r.PingCount = PingCountBefore(Key(r)) + 1]_vars

C10_Witness ==
    /\ spc = "loop"
    /\ pingEnabled
    /\ Cardinality(DOMAIN connections) > SemCap
    /\ \A k \in DOMAIN connections : heap[connections[k]].PingCount = 1
    /\ \E k \in DOMAIN connections : heap[connections[k]].PingFailed = 1
    /\ \E k \in DOMAIN connections : heap[connections[k]].PingFailed = 0

\* --------------------------------------------------------------- C11
\* Start's scan without probes, then a consumer that searches: two application
\* names, queries that differ from them in case, match a part or match nothing
NameChrome == <<"C", "h", "r", "o", "m", "e">>
NameSshd == <<"s", "s", "h", "d">>
SearchEntries ==
    Entries({EpWeb, EpListen}, {NameChrome, NameSshd}, {StateEstablished}, {0})
SearchResults == Lists(SearchEntries, MaxLen)
SearchQueries == {<<>>, <<"c", "h", "r", "o", "m", "e">>, <<"C", "H", "R">>,
                  <<"H">>, <<"t", "c", "p">>}

InitSearch == InitWith({FALSE})

NextSearch ==
    \/ Start
    \/ ScanDiscover(SearchResults, {1})
    \/ ScanLock
    \/ ScanReconcile
    \/ ScanEvict
    \/ \E q \in SearchQueries : SearchRLock(q)
    \/ SearchCopy
    \/ SnapshotCopy

SpecSearch == InitSearch /\ [][NextSearch]_vars

\* the characters a and b are equal up to the case of a letter
SameLetter(a, b) ==
    \/ a = b
    \/ \E j \in 1..Len(Uppers) : {a, b} = {Uppers[j], Lowers[j]}

\* str has an occurrence of sub, ignoring case
OccursIgnoringCase(str, sub) ==
    \E i \in 0..(Len(str) - Len(sub)) :
        \A j \in 1..Len(sub) : SameLetter(str[i + j], sub[j])

\* C11: Search(q) returns copies of exactly the live records whose application
\* name has an occurrence of q ignoring case, whatever their other fields; for
\* the empty query it returns what Snapshot returns, a copy of every record.
C11_SearchMatchesNameIgnoringCase ==
    [][ReturnStep =>
        LET live == Range(LiveRecords(heap, connections))
            returned == {heap'[a] : a \in snap'}
        IN /\ snap' \cap Range(connections) = {}
           /\ Cardinality(snap') = Cardinality(returned)
           /\ rpc = "search" =>
                returned = {r \in live : OccursIgnoringCase(r.AppName, query)}
           /\ rpc = "snapshot" => returned = live]_vars

C11_Witness ==
    /\ rpc = "idle"
    /\ \E a \in snap : heap[a].AppName = NameChrome
    /\ \A a \in snap : heap[a].AppName = NameChrome
    /\ \E k \in DOMAIN connections : heap[connections[k]].AppName = NameSshd

\* --------------------------------------------------------------- C12
\* MeasurePing by itself: the target address and the outcome of each of the
\* pingCount attempts (connected or not, after how long) are drawn at the start
PingAddrs == {"0.0.0.0", "::", "127.0.0.1", "::1", "127.0.0.53", "93.184.216.34"}
PingOutcomes == [1..pingCount -> {Attempt(ok, e) : ok \in BOOLEAN, e \in 1..MaxElapsed}]

InitPing ==
    /\ NewTracker({FALSE})
    /\ model = NewModel
    /\ \E a \in PingAddrs, out \in PingOutcomes :
           call = [NoCall EXCEPT !.pc = "ready", !.addr = a, !.port = 443, !.out = out]

\* rtt, loss := MeasurePing(addr, port)
MeasurePingCall ==
    /\ call.pc = "ready"
    /\ LET r == MeasurePing(call.addr, call.port, call.out)
       IN call' = [call EXCEPT !.pc = "done", !.rtt = r.rtt, !.loss = r.loss,
                               !.dials = r.dials]
    /\ UNCHANGED <<trackerVars, model>>

NextPing == MeasurePingCall

SpecPing == InitPing /\ [][NextPing]_vars

\* net.ParseIP on the addresses in use: the bytes of the address
ParseIP(addr) ==
    CASE addr = "0.0.0.0" -> <<0, 0, 0, 0>>
      [] addr = "127.0.0.1" -> <<127, 0, 0, 1>>
      [] addr = "127.0.0.53" -> <<127, 0, 0, 53>>
      [] addr = "93.184.216.34" -> <<93, 184, 216, 34>>
      [] addr = "::" -> [i \in 1..16 |-> 0]
      [] addr = "::1" -> [i \in 1..16 |-> IF i = 16 THEN 1 ELSE 0]

\* the unspecified addresses 0.0.0.0 and ::
IsUnspecified(ip) == \A i \in 1..Len(ip) : ip[i] = 0

\* the loopback addresses: 127.0.0.0/8 and ::1
IsLoopback(ip) ==
    \/ Len(ip) = 4 /\ ip[1] = 127
    \/ Len(ip) = 16 /\ ip[16] = 1 /\ \A i \in 1..15 : ip[i] = 0

Probeable(addr) == ~IsUnspecified(ParseIP(addr)) /\ ~IsLoopback(ParseIP(addr))

\* the sum of f[i] over the attempts i of 1..n that satisfy ok
RECURSIVE TimeOf(_, _, _)
TimeOf(out, n, wanted) ==
    IF n = 0 THEN 0
    ELSE (IF out[n].ok = wanted THEN out[n].elapsed ELSE 0) + TimeOf(out, n - 1, wanted)

\* C12: for a probeable target and every outcome of the pingCount attempts,
\* MeasurePing returns loss = failed / pingCount x 100 and as RTT the average
\* (in whole units of time.Duration) of the elapsed times of the successful
\* attempts only; RTT 0 and loss 100 when all fail, loss 0 when all succeed.
C12_LossAndAverageOfSuccessful ==
    (call.pc = "done" /\ Probeable(call.addr)) =>
        LET failed == Cardinality({i \in 1..pingCount : ~call.out[i].ok})
            succeeded == pingCount - failed
            total == TimeOf(call.out, pingCount, TRUE)
        IN /\ call.loss[1] * pingCount = failed * 100 * call.loss[2]
           /\ succeeded > 0 =>
                /\ call.rtt * succeeded <= total
                /\ total < (call.rtt + 1) * succeeded
           /\ succeeded = 0 => call.rtt = 0 /\ call.loss = <<100, 1>>
           /\ failed = 0 => call.loss = FracZero

C12_Witness ==
    /\ call.pc = "done"
    /\ Probeable(call.addr)
    /\ ~call.out[1].ok /\ call.out[1].elapsed = MaxElapsed
    /\ call.out[2].ok /\ call.out[2].elapsed = MaxElapsed
    /\ call.out[3].ok /\ call.out[3].elapsed = MaxElapsed
    /\ call.rtt = MaxElapsed
    /\ call.loss = <<100, 3>>

\* --------------------------------------------------------------- C13
\* C13: for an unspecified or a loopback target address, whatever its spelling,
\* MeasurePing returns zero RTT and zero loss and has made no connection attempt.
C13_LoopbackIsNoOp ==
    (call.pc = "done" /\ ~Probeable(call.addr)) =>
        call.rtt = 0 /\ call.loss = FracZero /\ call.dials = 0

\* --------------------------------------------------------------- C14
\* the whole life of a Tracker: Start, the goroutine's loop with its ticks,
\* scans with and without probe passes, and Stop at any time after Start
LifeEntries == Entries({EpPeer(1), EpPeer(2)}, Names, {StateEstablished}, {0})
LifeResults == Lists(LifeEntries, MaxLen)

InitLife == InitWith(BOOLEAN)

NextLife ==
    \/ Start
    \/ LoopTick(MaxCycles)
    \/ LoopStop
    \/ Stop
    \/ ScanDiscover(LifeResults, {1})
    \/ ScanLock
    \/ ScanReconcile
    \/ ScanEvict
    \/ PingRLock
    \/ PingCollect
    \/ PingDispatch
    \/ PingWait
    \/ \E i \in 1..MaxLen : ProbeMeasure(i, SpecOutcomes)
    \/ \E i \in 1..MaxLen : ProbeLock(i)
    \/ \E i \in 1..MaxLen : ProbeWrite(i)
    \/ \E i \in 1..MaxLen : ProbeExit(i)

SpecLife == InitLife /\ [][NextLife]_vars

\* C14: Start returns only when its one scan is complete (discovery,
\* reconciliation and, with probing, the whole probe pass), and no cycle of the
\* background task begins before Start has returned.
C14_StartScansBeforeReturning ==
    [][/\ (~started /\ started') =>
            /\ ncycles = 1
            /\ ncycles' = 1
            /\ spc # "new"
            /\ spc' = "loop"
            /\ probes' = <<>>
            /\ mu' = [writer |-> "none", readers |-> {}]
            /\ ~err' => DOMAIN connections' = ResKeys(hist'.res)
            /\ ~err' /\ pingEnabled =>
                 \A k \in DOMAIN connections' : heap'[connections'[k]].PingCount = 1
       /\ (ncycles' # ncycles /\ ncycles > 0) => started]_vars

C14_Witness ==
    /\ started
    /\ ncycles = 1
    /\ spc = "loop"
    /\ pingEnabled
    /\ Cardinality(DOMAIN connections) = 2
    /\ \A k \in DOMAIN connections : heap[connections[k]].PingCount = 1

\* --------------------------------------------------------------- C15
\* C15: once Stop has closed the stop channel, the background task begins no
\* further scan cycle, whether or not a tick is pending.
C15_NoCycleAfterStop ==
    [][stopCh = "closed" => ncycles' = ncycles]_vars

\* --------------------------------------------------------------- C16
\* C16: Stop returns without waiting and touches nothing of a running cycle;
\* a probe pass that Stop interrupts still ends with every one of its targets
\* measured and written back.
C16_StopLeavesProbesRunning ==
    [][/\ (stopCh = "open" /\ stopCh' = "closed") =>
            UNCHANGED <<heap, connections, mu, spc, scanVars, pingVars>>
       /\ (stopCh = "closed" /\ spc \in PingPcs /\ spc' \notin PingPcs) =>
            \A i \in 1..Len(targets) :
                LET r == heap[targets[i]]
                IN r.PingCount = PingCountBefore(Key(r)) + 1]_vars

C16_Witness ==
    /\ stopCh = "closed"
    /\ spc = "ping_dispatch"
    /\ tidx = 2
    /\ Len(targets) = 2
    /\ probes[1].pc = "measure"

\* --------------------------------------------------------------- C17
\* C17: with probing disabled no probe pass and no measurement is ever started,
\* and RTT, loss, attempt count and failure count of every live record are zero.
C17_NoPingMeasuresNothing ==
    ~pingEnabled =>
        /\ spc \notin PingPcs
        /\ probes = <<>>
        /\ targets = <<>>
        /\ \A k \in DOMAIN connections :
            LET r == heap[connections[k]]
            IN r.Ping = 0 /\ r.Loss = FracZero /\ r.PingCount = 0 /\ r.PingFailed = 0

C17_Witness ==
    /\ ~pingEnabled
    /\ ncycles = MaxCycles
    /\ spc = "loop"
    /\ Eligible(heap, connections) # {}
    /\ \A a \in Eligible(heap, connections) : heap[a].ConnAge > 0

\* --------------------------------------------------------------- C19
\* C19: in every reachable state the send rate and the receive rate of every
\* live record are numbers that are not negative.
C19_RatesNeverNegative ==
    \A k \in DOMAIN connections :
        LET r == heap[connections[k]]
        IN /\ r.TxRate[1] >= 0 /\ r.TxRate[2] > 0
           /\ r.RxRate[1] >= 0 /\ r.RxRate[2] > 0

C19_Witness ==
    /\ spc = "loop"
    /\ \E k \in DOMAIN connections :
        LET r == heap[connections[k]]
        IN r.TxBytes < r.prevTxBytes /\ r.TxRate[1] > 0

\* --------------------------------------------------------------- C20
\* scans with probe passes over records in and out of the ESTABLISHED state,
\* with and without a remote peer; a key may change its state between scans
EpAny6 == Endpoint(102, "tcp6", "::", 8080, "::", 0)
EligEntries ==
    Entries({EpWeb}, Names, {StateEstablished, StateTimeWait}, {0})
        \cup Entries({EpListen, EpAny6}, Names, {StateEstablished}, {0})
EligResults == Lists(EligEntries, MaxLen)

InitElig == InitWith({TRUE})

NextElig ==
    \/ Start
    \/ LoopTick(MaxCycles)
    \/ ScanDiscover(EligResults, {1})
    \/ ScanLock
    \/ ScanReconcile
    \/ ScanEvict
    \/ PingRLock
    \/ PingCollect
    \/ PingDispatch
    \/ PingWait
    \/ \E i \in 1..MaxLen : ProbeMeasure(i, SpecOutcomes)
    \/ \E i \in 1..MaxLen : ProbeLock(i)
    \/ \E i \in 1..MaxLen : ProbeWrite(i)
    \/ \E i \in 1..MaxLen : ProbeExit(i)

SpecElig == InitElig /\ [][NextElig]_vars

\* RTT, loss, attempt count and failure count of the record r
PingFields(r) == <<r.Ping, r.Loss, r.PingCount, r.PingFailed>>

\* the record r is ESTABLISHED and its remote address is neither 0.0.0.0 nor ::
HasPeer(r) == r.State = "ESTABLISHED" /\ r.RemoteAddr \notin {"0.0.0.0", "::"}

\* the ping fields a live record had when the current cycle began
PingFieldsBefore(k) ==
    IF k \in DOMAIN hist.pre THEN PingFields(hist.pre[k]) ELSE <<0, FracZero, 0, 0>>

\* C20: a probe pass measures exactly the live records that are ESTABLISHED
\* with a remote address other than 0.0.0.0 and ::, each once; RTT, loss,
\* attempt count and failure count of any other record are never written.
C20_PassMeasuresExactlyEstablishedPeers ==
    [][/\ \A a \in DOMAIN heap \cap DOMAIN heap' :
            PingFields(heap'[a]) # PingFields(heap[a]) => HasPeer(heap[a])
       /\ (spc \in PingPcs /\ spc' \notin PingPcs) =>
            \A k \in DOMAIN connections :
                LET r == heap[connections[k]]
                IN IF HasPeer(r)
                   THEN r.PingCount = PingFieldsBefore(k)[3] + 1
                   ELSE PingFields(r) = PingFieldsBefore(k)]_vars

C20_Witness ==
    /\ spc = "loop"
    /\ ncycles = MaxCycles
    /\ \E k \in DOMAIN connections :
        LET r == heap[connections[k]]
        IN HasPeer(r) /\ r.PingCount = 1 /\ r.ConnAge > 0
    /\ \E k \in DOMAIN connections :
        LET r == heap[connections[k]]
        IN r.State = "ESTABLISHED" /\ ~HasPeer(r) /\ r.PingCount = 0 /\ r.ConnAge > 0

\* --------------------------------------------------------------- C18
\* the interface over a tracker without probes whose scans find two
\* connections or none; the keys pressed at the table and those typed into the
\* search prompt, the terminal sizes and the -filter flags are drawn from sets
CommandKeys == {"q", "/", "k", "j", "g", "G", "1", "2", "p", "r", "c", "?", "x"}
TypedKeys == {"enter", "esc", "backspace", "C", "?"}
TuiSizes == {<<120, 30>>, <<80, 7>>}
TuiFlags == {<<>>, <<"C">>}
TuiResults ==
    {<<>>,
     [i \in 1..2 |->
        IF i = 1
        THEN CHOOSE e \in Entries({EpWeb}, {NameChrome}, {StateEstablished}, {0}) : TRUE
        ELSE CHOOSE e \in Entries({EpListen}, {NameSshd}, {StateListening}, {0}) : TRUE]}

InitTui ==
    /\ NewTracker({FALSE})
    /\ call = NoCall
    /\ \E f \in TuiFlags : model = IF f # <<>> THEN SetFilter(NewModel, f) ELSE NewModel

NextTui ==
    \/ Start
    \/ LoopTick(MaxCycles)
    \/ ScanDiscover(TuiResults, {1})
    \/ ScanLock
    \/ ScanReconcile
    \/ ScanEvict
    \/ \E key \in (IF model.searching THEN TypedKeys ELSE CommandKeys) : KeyMsg(key)
    \/ TickMsg
    \/ \E sz \in TuiSizes : WindowSizeMsg(sz[1], sz[2])

SpecTui == InitTui /\ [][NextTui]_vars

\* the step handles a key: only handleKey writes one of these fields
KeyStep ==
    \E f \in {"filter", "searching", "cursor", "offset", "sortField", "sortAsc",
              "paused", "showHelp", "quit"} : model'[f] # model[f]

\* C18: while the help screen is shown, a key press closes it (or ends the
\* program).
C18_AnyKeyClosesHelp ==
    [][(HelpShown(model) /\ KeyStep) => (~HelpShown(model') \/ model'.quit)]_vars

\* --------------------------------------------------------------- C21
\* scans with probe passes over two connections, one of them seen under two
\* application names and in two states; a measurement loses none, one or all
\* of its pingCount attempts
MeasureEntries ==
    Entries({EpWeb}, {NameChrome}, {StateEstablished, StateTimeWait}, {0})
        \cup Entries({EpWeb}, {NameSshd}, {StateEstablished}, {0})
        \cup Entries({EpPeer(1)}, {NameChrome}, {StateEstablished}, {0})
MeasureResults == Lists(MeasureEntries, MaxLen)
MeasureOutcomes ==
    {[i \in 1..pingCount |-> Attempt(i > n, MaxElapsed)] : n \in {0, 1, pingCount}}

InitMeasure == InitWith({TRUE})

NextMeasure ==
    \/ Start
    \/ LoopTick(MaxCycles)
    \/ ScanDiscover(MeasureResults, {1})
    \/ ScanLock
    \/ ScanReconcile
    \/ ScanEvict
    \/ PingRLock
    \/ PingCollect
    \/ PingDispatch
    \/ PingWait
    \/ \E i \in 1..MaxLen : ProbeMeasure(i, MeasureOutcomes)
    \/ \E i \in 1..MaxLen : ProbeLock(i)
    \/ \E i \in 1..MaxLen : ProbeWrite(i)
    \/ \E i \in 1..MaxLen : ProbeExit(i)

SpecMeasure == InitMeasure /\ [][NextMeasure]_vars

\* the step is the write-back of probe i
WriteStep(i) ==
    /\ i \in DOMAIN probes
    /\ i \in DOMAIN probes'
    /\ probes[i].pc = "write"
    /\ probes'[i].pc # "write"

\* the step ends the collection of a probe pass's targets
CollectStep == spc = "ping_collect" /\ spc' # "ping_collect"

\* the step is the return of a probe pass
PassReturnStep == spc \in PingPcs /\ spc' \notin PingPcs

\* C21: a probe pass collects each eligible record exactly once and has
\* measured each exactly once when it returns; a probe's write-back stores the
\* measured RTT and loss, adds 1 to the attempt count and adds 1 to the failure
\* count iff the measured loss is 100, in one step under the write lock, and no
\* other step writes these fields.
C21_ProbedOnceWrittenAtomically ==
    [][/\ \A i \in DOMAIN probes : WriteStep(i) =>
            LET a == probes[i].conn
                p == probes[i]
            IN /\ mu.writer = "probe"
               /\ mu'.writer = "none"
               /\ heap'[a].Ping = p.rtt
               /\ heap'[a].Loss = p.loss
               /\ heap'[a].PingCount = heap[a].PingCount + 1
               /\ heap'[a].PingFailed =
                    heap[a].PingFailed + (IF p.loss = <<100, 1>> THEN 1 ELSE 0)
               /\ \A b \in DOMAIN heap \ {a} : heap'[b] = heap[b]
       /\ \A a \in DOMAIN heap \cap DOMAIN heap' :
            PingFields(heap'[a]) # PingFields(heap[a]) =>
                \E i \in DOMAIN probes : WriteStep(i) /\ probes[i].conn = a
       /\ CollectStep =>
            /\ Range(targets') = {a \in Range(connections) : HasPeer(heap[a])}
            /\ Cardinality(Range(targets')) = Len(targets')
       /\ PassReturnStep =>
            \A k \in DOMAIN connections :
                HasPeer(heap[connections[k]]) =>
                    heap[connections[k]].PingCount = PingFieldsBefore(k)[3] + 1]_vars

C21_Witness ==
    /\ spc = "loop"
    /\ \E k \in DOMAIN connections :
        LET r == heap[connections[k]]
        IN /\ r.PingCount = 2
           /\ r.PingFailed = 1
           /\ r.Loss = <<100, 3>>
           /\ r.Ping > 0

\* --------------------------------------------------------------- C25
\* the fields of a record that make its key
KeyFields(r) == <<r.PID, r.Protocol, r.LocalAddr, r.LocalPort, r.RemoteAddr, r.RemotePort>>

\* C25: the reconciliation of a re-observed key leaves the map entry pointing
\* at the same record and leaves its first-seen time, application name, key
\* fields, direction and probe results as they were, whatever the scanned
\* record holds.
C25_UpdateKeepsIdentityAndProbeResults ==
    [][UpdateStep =>
        LET a == connections[Key(heap[scanned[idx]])]
        IN /\ connections' = connections
           /\ heap'[a].FirstSeen = heap[a].FirstSeen
           /\ heap'[a].AppName = heap[a].AppName
           /\ KeyFields(heap'[a]) = KeyFields(heap[a])
           /\ heap'[a].Direction = heap[a].Direction
           /\ PingFields(heap'[a]) = PingFields(heap[a])
           /\ \A b \in DOMAIN heap \ {a} : heap'[b] = heap[b]]_vars

C25_Witness ==
    /\ spc = "ping_rlock"
    /\ \E k \in DOMAIN connections :
        LET r == heap[connections[k]]
        IN /\ r.ConnAge > 0
           /\ r.PingCount = 1
           /\ r.Ping > 0
           /\ r.AppName = NameChrome
           /\ \E i \in 1..Len(hist.res) :
                Key(hist.res[i]) = k /\ hist.res[i].AppName = NameSshd

\* --------------------------------------------------------------- C27
\* C27: every live record has 0 <= failure count <= attempt count and
\* 0 <= loss <= 100, and its RTT is 0 whenever its loss is 100.
C27_ProbeResultsConsistent ==
    \A k \in DOMAIN connections :
        LET r == heap[connections[k]]
        IN /\ 0 <= r.PingFailed
           /\ r.PingFailed <= r.PingCount
           /\ r.Loss[2] > 0
           /\ 0 <= r.Loss[1]
           /\ r.Loss[1] <= 100 * r.Loss[2]
           /\ r.Loss[1] = 100 * r.Loss[2] => r.Ping = 0

C27_Witness ==
    /\ spc = "loop"
    /\ \E k \in DOMAIN connections :
        LET r == heap[connections[k]]
        IN /\ r.PingCount = 2
           /\ r.PingFailed = 1
           /\ r.Loss = <<100, 1>>
           /\ r.Ping = 0

\* --------------------------------------------------------------- C22
\* the step is probe i's call of MeasurePing, which reads conn.RemoteAddr and
\* conn.RemotePort of a live record
MeasureStep(i) ==
    /\ i \in DOMAIN probes
    /\ i \in DOMAIN probes'
    /\ probes[i].pc = "measure"
    /\ probes'[i].pc # "measure"

\* the step writes the live map or a field of a live record
LiveWriteStep ==
    \/ connections' # connections
    \/ \E a \in Range(connections) \cap DOMAIN heap' : heap'[a] # heap[a]

\* the steps that read or write the live map and its records, other than a
\* probe's call of MeasurePing, hold the lock: readers the read lock, writers
\* the write lock
LockedAccess ==
    /\ ReturnStep => "reader" \in mu.readers
    /\ CollectStep => "pingAll" \in mu.readers
    /\ spc = "reconcile" => mu.writer = "scan"
    /\ LiveWriteStep => mu.writer \in {"scan", "probe"}
    /\ \A i \in DOMAIN probes : WriteStep(i) => mu.writer = "probe"
    /\ mu.writer # "none" => mu.readers = {}

\* C22 as stated: every read and every write of the live map and of a field of
\* a live record, a probe task's reads included, happens with the lock held.
C22_AllAccessUnderLock ==
    [][/\ LockedAccess
       /\ \A i \in DOMAIN probes :
            MeasureStep(i) => (mu.writer = "probe" \/ "pingAll" \in mu.readers)]_vars

\* C22 amended: every access to the live map and every access to a field of a
\* live record happens with the lock held, except a probe task's read of the
\* remote address and port of its target, two fields that no step ever writes
\* once the record exists.
C22_AccessUnderLockButImmutableReads ==
    [][/\ LockedAccess
       /\ \A a \in (Range(connections) \cup {probes[i].conn : i \in DOMAIN probes})
                    \cap DOMAIN heap' :
            /\ heap'[a].RemoteAddr = heap[a].RemoteAddr
            /\ heap'[a].RemotePort = heap[a].RemotePort]_vars

C22_Witness ==
    /\ "reader" \in mu.readers
    /\ \E i \in DOMAIN probes : probes[i].pc = "lock"

\* --------------------------------------------------------------- C23
\* during the dispatch and the wait of a probe pass the lock has no holder
\* among the scanner and the probes unless a probe is in its write-back
LockFreeOutsideWriteBack(s, pr, m) ==
    (s = "ping_dispatch" /\ \A i \in DOMAIN pr : pr[i].pc # "write") =>
        (m.writer = "none" /\ CanRLock(m) /\ "pingAll" \notin m.readers)

\* C23: a measurement runs without the lock: its step neither takes nor needs
\* it, and while probes are in flight the lock is held on behalf of the pass
\* only inside a write-back, so RLock of Snapshot or Search is free to proceed
\* whenever no write-back is under way.
C23_NoLockWhileMeasuring ==
    [][/\ LockFreeOutsideWriteBack(spc, probes, mu)
       /\ LockFreeOutsideWriteBack(spc', probes', mu')
       /\ \A i \in DOMAIN probes : MeasureStep(i) => UNCHANGED mu
       /\ (rpc = "idle" /\ rpc' # "idle") =>
            \A i \in DOMAIN probes : probes'[i] = probes[i]]_vars

C23_Witness ==
    /\ rpc \in {"snapshot", "search"}
    /\ "reader" \in mu.readers
    /\ spc = "ping_dispatch"
    /\ tidx > Len(targets)
    /\ \E i \in DOMAIN probes : probes[i].pc = "measure"

\* --------------------------------------------------------------- C24
\* scans of sockets that change their state between two scans: a connection
\* with a peer that is established and then closing, and sockets without a
\* peer that listen and then are closed.  The connection tables of the kernel
\* give a socket in the LISTEN state the remote address 0.0.0.0 or ::.
StateClosed == "CLOSED"
DirEntries ==
    Entries({EpWeb}, Names, {StateEstablished, StateTimeWait}, {0})
        \cup Entries({EpListen, EpAny6}, Names, {StateListening, StateClosed}, {0})
DirResults == Lists(DirEntries, MaxLen)

InitDir == InitWith({FALSE})

NextDir ==
    \/ Start
    \/ LoopTick(MaxCycles)
    \/ ScanDiscover(DirResults, {1})
    \/ ScanLock
    \/ ScanReconcile
    \/ ScanEvict

SpecDir == InitDir /\ [][NextDir]_vars

ReturnEntries == Entries({EpWeb}, {NameChrome, NameSshd}, {StateEstablished}, {0})
ReturnResults == Lists(ReturnEntries, 1)

InitReturn == InitWith({TRUE})

NextReturn ==
    \/ Start
    \/ LoopTick(RateCycles)
    \/ ScanDiscover(ReturnResults, {1})
    \/ ScanLock
    \/ ScanReconcile
    \/ ScanEvict
    \/ PingRLock
    \/ PingCollect
    \/ PingDispatch
    \/ PingWait
    \/ \E i \in 1..MaxLen :
        \/ ProbeMeasure(i, SpecOutcomes)
        \/ ProbeLock(i)
        \/ ProbeWrite(i)
        \/ ProbeExit(i)

SpecReturn == InitReturn /\ [][NextReturn]_vars

\* the record r is one that has just been created by a scan at time t
FreshAt(r, t) ==
    /\ r.FirstSeen = t
    /\ r.LastUpdated = t
    /\ r.ConnAge = 0
    /\ r.TxRate = FracZero
    /\ r.RxRate = FracZero
    /\ PingFields(r) = <<0, FracZero, 0, 0>>

\* C26: a key that was absent from the last successful discovery and is in
\* this one gets a fresh record: a new object with this scan's time as its
\* first-seen time, rates 0, ping fields 0 and the scanned name, and this is
\* what the live map holds for the key when the scan ends; nothing of a record
\* the key had before it was evicted is kept.
C26_ReturningKeyGetsFreshRecord ==
    [][/\ (InsertStep /\ Key(heap[scanned[idx]]) \notin hist.disc) =>
            LET a == scanned[idx]
                k == Key(heap[a])
            IN /\ connections'[k] = a
               /\ a \notin Range(connections)
               /\ FreshAt(heap'[a], now)
               /\ heap'[a].AppName = FirstEntry(hist.res, k).AppName
       /\ EvictStep =>
            \A k \in ResKeys(hist.res) \ hist.disc :
                /\ k \in DOMAIN connections'
                /\ FreshAt(heap'[connections'[k]], now)
                /\ heap'[connections'[k]].AppName = FirstEntry(hist.res, k).AppName
                /\ k \in DOMAIN hist.gone =>
                      heap'[connections'[k]].FirstSeen > hist.gone[k].FirstSeen]_vars

C26_Witness ==
    /\ spc = "ping_rlock"
    /\ \E k \in DOMAIN connections \cap DOMAIN hist.gone :
        /\ k \notin DOMAIN hist.pre
        /\ hist.gone[k].PingCount = 1
        /\ hist.gone[k].Ping > 0
        /\ hist.gone[k].AppName # heap[connections[k]].AppName
        /\ FreshAt(heap[connections[k]], now)

\* --------------------------------------------------------------- C28
\* the program counters of scan before its probe pass
ScanPcs == {"scan", "lock", "reconcile"}

\* C28: scan cycles never overlap.  A cycle starts only from Start or from the
\* goroutine's select, when no scan and no probe pass is running and no probe
\* is in flight; while a scan discovers and reconciles no probe is in flight;
\* and every write-back of a probe goes to a record that the live map holds.
C28_CyclesDoNotOverlap ==
    [][/\ ncycles' # ncycles =>
            /\ spc \in {"new", "loop"}
            /\ ncycles' = ncycles + 1
            /\ probes = <<>> /\ wg = 0 /\ sem = 0
            /\ mu.writer = "none" /\ "pingAll" \notin mu.readers
       /\ spc \in ScanPcs \cup {"loop", "stopped"} =>
            probes = <<>> /\ wg = 0 /\ sem = 0
       /\ \A i \in DOMAIN probes :
            /\ probes[i].conn \in Range(connections)
            /\ WriteStep(i) =>
                  /\ probes[i].conn \in Range(connections')
                  /\ heap'[probes[i].conn].PingCount =
                        heap[probes[i].conn].PingCount + 1]_vars

C28_Witness ==
    /\ ncycles = MaxCycles
    /\ spc = "ping_dispatch"
    /\ Len(targets) = 2
    /\ \E i, j \in DOMAIN probes :
        /\ probes[i].pc = "write"
        /\ probes[j].pc = "measure"
        /\ heap[probes[i].conn].PingCount = 1
        /\ probes[i].conn \in Range(connections)

\* --------------------------------------------------------------- C29
\* probe passes over more targets than the semaphore has room for, with a
\* consumer that calls Snapshot again and again once Start has returned
\* every measurement returns; what it returns does not matter here
FairOutcomes == {[i \in 1..pingCount |-> Attempt(TRUE, 1)]}

InitFair == InitWith({TRUE})

NextFair ==
    \/ Start
    \/ LoopTick(MaxCycles)
    \/ ScanDiscover(ProbeResults, {1})
    \/ ScanLock
    \/ ScanReconcile
    \/ ScanEvict
    \/ PingRLock
    \/ PingCollect
    \/ PingDispatch
    \/ PingWait
    \/ \E i \in 1..NumPeers : ProbeMeasure(i, FairOutcomes)
    \/ \E i \in 1..NumPeers : ProbeLock(i)
    \/ \E i \in 1..NumPeers : ProbeWrite(i)
    \/ \E i \in 1..NumPeers : ProbeExit(i)
    \/ SnapshotRLock
    \/ SnapshotCopy

\* the scheduler runs every goroutine that can take a step; every call of
\* MeasurePing returns; a Snapshot that holds the read lock returns; and a
\* goroutine blocked in t.mu.Lock() gets the lock although readers keep
\* arriving, since a sync.RWMutex with a waiting writer admits no new reader
Fairness ==
    /\ WF_vars(ScanDiscover(ProbeResults, {1}))
    /\ WF_vars(ScanLock)
    /\ WF_vars(ScanReconcile)
    /\ WF_vars(ScanEvict)
    /\ WF_vars(PingRLock)
    /\ WF_vars(PingCollect)
    /\ WF_vars(PingDispatch)
    /\ WF_vars(PingWait)
    /\ WF_vars(SnapshotCopy)
    /\ \A i \in 1..NumPeers :
        /\ WF_vars(ProbeMeasure(i, FairOutcomes))
        /\ SF_vars(ProbeLock(i))
        /\ WF_vars(ProbeWrite(i))
        /\ WF_vars(ProbeExit(i))

SpecFair == InitFair /\ [][NextFair]_vars /\ Fairness

\* C29: a probe pass that has begun returns: the scanner reaches its loop
\* again with every dispatched probe finished, every slot of the semaphore
\* given back and the lock free of the pass, however many targets there are
\* and however often Snapshot is called meanwhile.
C29_ProbePassTerminates ==
    (spc \in PingPcs) ~>
        (spc = "loop" /\ probes = <<>> /\ sem = 0 /\ wg = 0 /\ mu.writer = "none")

C29_Witness ==
    /\ spc = "ping_dispatch"
    /\ Len(targets) > SemCap
    /\ tidx <= Len(targets)
    /\ sem = SemCap
    /\ "reader" \in mu.readers
    /\ \A i \in DOMAIN probes : probes[i].pc = "lock"

\* --------------------------------------------------------------- C30
\* the connection tables in the order in which ScanConnections reads them
Protocols == <<"tcp", "tcp6", "udp", "udp6">>

\* one read of a table: parseProcNet or get...Table returned err == nil with
\* rows, or an error
TableRead(ok, rows) == [ok |-> ok, rows |-> rows]

\* the rows of the tables numbered i and up that could be read
RECURSIVE ReadableRows(_, _)
ReadableRows(reads, i) ==
    IF i > Len(Protocols) THEN <<>>
    ELSE (IF reads[Protocols[i]].ok THEN reads[Protocols[i]].rows ELSE <<>>)
             \o ReadableRows(reads, i + 1)

\* ScanConnections that gives up with the error of the first table it cannot read
ScanConnections_FailOnError(reads) ==
    IF \A i \in 1..Len(Protocols) : reads[Protocols[i]].ok
    THEN [conns |-> ReadableRows(reads, 1), err |-> FALSE]
    ELSE [conns |-> <<>>, err |-> TRUE]

\* ScanConnections: a table that cannot be read is skipped, `return conns, nil`
ScanConnections(reads) == [conns |-> ReadableRows(reads, 1), err |-> FALSE]

\* scan, up to t.mu.Lock(), with the tables that ScanConnections reads
ScanTables(Reads, Dts) ==
    /\ spc = "scan"
    /\ \E d \in Dts, reads \in Reads :
        LET r == ScanConnections(reads)
            res == r.conns
            addrs == [i \in 1..Len(res) |-> ScanAddr(ncycles, i)]
            objs == [a \in Range(addrs) |-> NewConnection(res[a[2]], clock')]
        IN /\ clock' = clock + d
           /\ IF r.err
              THEN /\ ScanAbort
                   /\ hist' = [hist EXCEPT !.pre = LiveRecords(heap, connections),
                                           !.repeat = FALSE]
              ELSE /\ err' = FALSE
                   /\ heap' = heap @@ objs
                   /\ scanned' = addrs
                   /\ now' = clock'
                   /\ spc' = "lock"
                   /\ hist' = [hist EXCEPT
                        !.pre = LiveRecords(heap, connections),
                        !.res = res,
                        !.repeat = (res = hist.res /\ clock' = now),
                        !.failed = {Protocols[i] : i \in
                                     {j \in 1..Len(Protocols) : ~reads[Protocols[j]].ok}}]
                   /\ UNCHANGED started
    /\ UNCHANGED <<connections, mu, stopCh, pingEnabled, appVars, ncycles, alive, idx,
                   pingVars, readerVars>>

\* a TCP connection and a UDP socket; the IPv6 tables are empty or unreadable
EpDns == Endpoint(102, "udp", "10.0.0.2", 5353, "0.0.0.0", 0)
TcpRows == Lists(Entries({EpWeb}, Names, {StateEstablished}, {0}), 1)
UdpRows == Lists(Entries({EpDns}, Names, {StateClosed}, {0}), 1)
TableReads ==
    {[p \in Range(Protocols) |->
        IF p = "tcp" THEN t ELSE IF p = "udp" THEN u ELSE IF p = "tcp6" THEN t6 ELSE u6] :
        t \in {TableRead(FALSE, <<>>)} \cup {TableRead(TRUE, rows) : rows \in TcpRows},
        u \in {TableRead(FALSE, <<>>)} \cup {TableRead(TRUE, rows) : rows \in UdpRows},
        t6 \in {TableRead(ok, <<>>) : ok \in BOOLEAN},
        u6 \in {TableRead(ok, <<>>) : ok \in BOOLEAN}}

InitTables == InitWith({FALSE})

NextTables ==
    \/ Start
    \/ LoopTick(MaxCycles)
    \/ ScanTables(TableReads, {1})
    \/ ScanLock
    \/ ScanReconcile
    \/ ScanEvict

SpecTables == InitTables /\ [][NextTables]_vars

\* C30: ScanConnections never returns an error, so no cycle is skipped: a
\* table that cannot be read contributes nothing to the result, every scan goes
\* on to its reconciliation, and that reconciliation evicts every live record
\* whose protocol is that of a table that could not be read.
C30_FailedTableEvictsItsRecords ==
    [][/\ ~err'
       /\ (spc = "scan" /\ spc' # "scan") =>
            /\ spc' = "lock"
            /\ \A i \in 1..Len(hist'.res) : hist'.res[i].Protocol \notin hist'.failed
       /\ EvictStep =>
            /\ \A k \in DOMAIN hist.pre :
                    hist.pre[k].Protocol \in hist.failed => k \notin DOMAIN connections'
            /\ \A k \in DOMAIN connections' :
                    heap'[connections'[k]].Protocol \notin hist.failed]_vars

C30_Witness ==
    /\ spc = "loop"
    /\ ~err
    /\ "udp" \in hist.failed
    /\ \E k \in DOMAIN hist.pre \ DOMAIN connections : hist.pre[k].Protocol = "udp"
    /\ \E k \in DOMAIN connections :
        heap[connections[k]].Protocol = "tcp" /\ heap[connections[k]].ConnAge > 0

\* --------------------------------------------------------------- C31
\* C31: in every state of the interface the cursor is inside the displayed
\* list and the viewport follows it: 0 <= cursor <= max(0, rows - 1) and
\* 0 <= offset <= cursor, also after a refresh that shrinks the list.
C31_CursorInsideList ==
    /\ 0 <= model.cursor
    /\ model.cursor <= maxInt(0, model.rows - 1)
    /\ 0 <= model.offset
    /\ model.offset <= model.cursor

====
